---- MODULE Spec2Model ----
(***************************************************************************)
(* Vailed vector (source/vector.c, source/vector.h): a growable array      *)
(* whose header (cap, len, tsize, allocator) sits in the same heap block,  *)
(* immediately before the element storage the caller's pointer refers to.  *)
(*                                                                         *)
(* The heap is a map from block addresses to blocks.  A vector pointer is  *)
(* identified with the address of its block (VECTOR_HEADER is the fixed    *)
(* offset between the two).  Elements are atomic values; a block of        *)
(* `size` bytes whose header records element size `tsize` has              *)
(* (size - HeaderSize) \div tsize element slots.  Memory that malloc or    *)
(* realloc hands out fresh holds arbitrary values.  An access to a slot    *)
(* outside the block is undefined behaviour: the program either aborts or  *)
(* carries on with the access landing outside the block.                   *)
(***************************************************************************)
EXTENDS Integers, Sequences, FiniteSets, TLC

\* ---------------------------------------------------------------- bounds
MaxCap == 4      \* largest capacity passed to init/resize or reached by growth
MaxLen == 4      \* largest length passed to set_len, largest index passed to remove
NumAddr == 4     \* heap addresses are 1..NumAddr
MaxInner == 2    \* inner vectors created for one outer vector
Width == 8       \* bits of size_t where its arithmetic is followed

Items == {1, 2}        \* the element values pushed or found in fresh memory
Addrs == 1..NumAddr
ElemSizes == {4}       \* sizeof(int), the element type of the test programs

\* ------------------------------------------------------------- constants
NULL == 0
HeaderSize == 32          \* sizeof(VectorHeader): three size_t and a pointer
A_NULL == 0               \* a null Allocator pointer
A_STD == 1                \* the caller's Allocator {malloc, realloc, free}
PointerSize == 8          \* sizeof(int *), the element size of a vector of vectors
Outside == 0 - 1         \* what an index beyond the block's slots designates

VARIABLES
    heap,      \* address -> block (header fields and element slots)
    live,      \* addresses of the blocks currently allocated
    v,         \* the caller's vector pointer (NULL before init and after free)
    status,    \* "running" | "aborted" (the process died on an invalid access)
               \* | "dangling" (the block v points to has been released)
               \* | "corrupt" (a released block has been released again)
    last,      \* the last operation: its inputs, result and the vector before it
    fill,      \* what was pushed into the vector since its creation, while
               \* nothing but pushes and queries was applied to it
    nest       \* the program that fills v with pointers to inner vectors:
               \* its position, its local pointer and what it has pushed

vars == <<heap, live, v, status, last, fill, nest>>

EmptyBlock ==
    [size |-> 0, cap |-> 0, len |-> 0, tsize |-> 1, a |-> A_NULL, data |-> <<>>]

Mem == [heap |-> heap, live |-> live]

\* ------------------------------------------------------------ the block
Slots(size, tsize) == IF size < HeaderSize THEN 0 ELSE (size - HeaderSize) \div tsize

NumSlots(b) == Len(b.data)

InBlock(b, i) == i >= 0 /\ i < NumSlots(b)

\* vector[i] as the caller (or the library) reads it
Elem(b, i) == IF InBlock(b, i) THEN b.data[i + 1] ELSE Outside

\* the element sequence the header describes: vector[0 .. len-1]
Elems(b) == [i \in 1..b.len |-> Elem(b, i - 1)]

VECTOR_HEADER(vector) == vector

\* ------------------------------------------------------------ allocator
JunkSeqs(n) == [1..n -> Items]

Max(a, b) == IF a > b THEN a ELSE b
Min(a, b) == IF a < b THEN a ELSE b

\* the address of a new block: addresses are interchangeable, so the
\* allocator is taken to hand out the lowest free one (none when all are live)
FreshAddr(m) ==
    {p \in Addrs \ m.live : \A q \in Addrs \ m.live : p <= q}

\* what malloc can do with a request for a block of `slots` element slots
MallocOutcomes(m, slots) ==
    {[kind |-> "fail", addr |-> NULL, junk |-> <<>>]}
    \cup {[kind |-> "ok", addr |-> p, junk |-> j] :
            p \in FreshAddr(m), j \in JunkSeqs(slots)}

\* whether an operation on block b can reach beyond the block's slots
Overhangs(b) == b.len > NumSlots(b)

\* the ways an access outside the block can end, where one can happen
OutOfBounds(b) == IF Overhangs(b) THEN {"continue", "abort"} ELSE {"continue"}

\* the values a read outside the block can yield, where one can happen
OutsideValues(b) == IF Overhangs(b) THEN Items ELSE {1}

\* what realloc can do with block p asked to hold `slots` element slots
ReallocOutcomes(m, p, slots) ==
    LET fresh == Max(0, slots - NumSlots(m.heap[p]))
    IN  {[kind |-> "fail", addr |-> NULL, junk |-> <<>>]}
        \cup {[kind |-> "inplace", addr |-> p, junk |-> j] : j \in JunkSeqs(fresh)}
        \cup {[kind |-> "move", addr |-> q, junk |-> j] :
                q \in FreshAddr(m), j \in JunkSeqs(fresh)}

NoOutcome == [kind |-> "none", addr |-> NULL, junk |-> <<>>]

\* a->malloc(size): a fresh block with arbitrary contents, or NULL
a_malloc(m, size, out) ==
    IF out.kind = "fail"
    THEN [m |-> m, ret |-> NULL]
    ELSE [m |-> [heap |-> [m.heap EXCEPT ![out.addr] =
                              [EmptyBlock EXCEPT !.size = size,
                                                 !.data = out.junk]],
                 live |-> m.live \cup {out.addr}],
          ret |-> out.addr]

\* a->realloc(p, size): NULL and the block untouched, or a block of the new
\* size (at the same or at another address) holding the old bytes up to the
\* smaller of the two sizes; when it moves, the old block is released.
a_realloc(m, p, size, out) ==
    IF out.kind = "fail"
    THEN [m |-> m, ret |-> NULL]
    ELSE LET old == m.heap[p]
             n == Slots(size, old.tsize)
             nb == [old EXCEPT !.size = size,
                               !.data = [i \in 1..n |->
                                           IF i <= NumSlots(old)
                                           THEN old.data[i]
                                           ELSE out.junk[i - NumSlots(old)]]]
         IN  [m |-> [heap |-> [[m.heap EXCEPT ![p] = EmptyBlock]
                                  EXCEPT ![out.addr] = nb],
                     live |-> (m.live \ {p}) \cup {out.addr}],
              ret |-> out.addr]

\* a->free(p)
a_free(m, p) ==
    [heap |-> [m.heap EXCEPT ![p] = EmptyBlock], live |-> m.live \ {p}]

\* ------------------------------------------------------ source/vector.c
\* vector_init writing the capacity into the length field as well
vector_init_full(m, tsize, cap, a, out) ==
    IF a = A_NULL
    THEN [m |-> m, ret |-> NULL]
    ELSE LET r == a_malloc(m, HeaderSize + tsize * cap, out)
         IN  IF r.ret = NULL
             THEN [m |-> r.m, ret |-> NULL]
             ELSE [m |-> [r.m EXCEPT !.heap[r.ret].cap = cap,
                                     !.heap[r.ret].len = cap,
                                     !.heap[r.ret].tsize = tsize,
                                     !.heap[r.ret].a = a],
                   ret |-> r.ret]

\* void *vector_init(size_t tsize, size_t cap, Allocator *a)
vector_init(m, tsize, cap, a, out) ==
    IF a = A_NULL
    THEN [m |-> m, ret |-> NULL]
    ELSE LET r == a_malloc(m, HeaderSize + tsize * cap, out)
         IN  IF r.ret = NULL
             THEN [m |-> r.m, ret |-> NULL]
             ELSE [m |-> [r.m EXCEPT !.heap[r.ret].cap = cap,
                                     !.heap[r.ret].len = 0,
                                     !.heap[r.ret].tsize = tsize,
                                     !.heap[r.ret].a = a],
                   ret |-> r.ret]

\* vector_free reporting success without calling the allocator's free
vector_free_keeping(m, vector) ==
    IF vector = NULL
    THEN [m |-> m, ret |-> 1]
    ELSE IF m.heap[VECTOR_HEADER(vector)].a = A_NULL
    THEN [m |-> m, ret |-> 1]
    ELSE [m |-> m, ret |-> 0]

\* int vector_free(void *vector)
vector_free(m, vector) ==
    IF vector = NULL
    THEN [m |-> m, ret |-> 1]
    ELSE LET tmp == VECTOR_HEADER(vector)
         IN  IF m.heap[tmp].a = A_NULL
             THEN [m |-> m, ret |-> 1]
             ELSE [m |-> a_free(m, tmp), ret |-> 0]

\* vector_can_append with the comparison relaxed to cap >= len
vector_can_append_when_full(m, vector) ==
    IF vector = NULL THEN FALSE
    ELSE m.heap[VECTOR_HEADER(vector)].cap >= m.heap[VECTOR_HEADER(vector)].len

\* int vector_can_append(void *vector)
vector_can_append(m, vector) ==
    IF vector = NULL THEN FALSE
    ELSE m.heap[VECTOR_HEADER(vector)].cap > m.heap[VECTOR_HEADER(vector)].len

\* int vector_get_cap(void *vector, size_t *out): the value written to *out
vector_get_cap(m, vector) == m.heap[VECTOR_HEADER(vector)].cap

\* int vector_get_len(void *vector, size_t *out): the value written to *out
vector_get_len(m, vector) == m.heap[VECTOR_HEADER(vector)].len

\* vector_set_len keeping the length within the capacity
vector_set_len_clamped(m, vector, len) ==
    IF vector = NULL
    THEN [m |-> m, ret |-> 1]
    ELSE [m |-> [m EXCEPT !.heap[VECTOR_HEADER(vector)].len =
                             Min(len, m.heap[VECTOR_HEADER(vector)].cap)],
          ret |-> 0]

\* int vector_set_len(void *vector, size_t len)
vector_set_len(m, vector, len) ==
    IF vector = NULL
    THEN [m |-> m, ret |-> 1]
    ELSE [m |-> [m EXCEPT !.heap[VECTOR_HEADER(vector)].len = len], ret |-> 0]

\* vector_resize storing the new capacity before it knows realloc succeeded
vector_resize_cap_first(m, vector, cap, out) ==
    IF vector = NULL
    THEN [m |-> m, ret |-> NULL]
    ELSE LET tmp == VECTOR_HEADER(vector)
             m1 == [m EXCEPT !.heap[tmp].cap = cap]
         IN  IF m.heap[tmp].a = A_NULL
             THEN [m |-> m, ret |-> NULL]
             ELSE LET r == a_realloc(m1, tmp, cap * m.heap[tmp].tsize + HeaderSize, out)
                  IN  [m |-> r.m, ret |-> r.ret]

\* vector_resize leaving the allocator reference behind when the block moves
vector_resize_losing_allocator(m, vector, cap, out) ==
    IF vector = NULL THEN [m |-> m, ret |-> NULL]
    ELSE LET tmp == VECTOR_HEADER(vector)
         IN  IF m.heap[tmp].a = A_NULL THEN [m |-> m, ret |-> NULL]
             ELSE LET r == a_realloc(m, tmp, cap * m.heap[tmp].tsize + HeaderSize, out)
                  IN  IF r.ret = NULL THEN [m |-> r.m, ret |-> NULL]
                      ELSE [m |-> [r.m EXCEPT !.heap[r.ret].cap = cap,
                                              !.heap[r.ret].a =
                                                  IF r.ret = tmp THEN @ ELSE A_NULL],
                            ret |-> r.ret]

\* vector_resize starting the resized vector over at length 0
vector_resize_clearing(m, vector, cap, out) ==
    IF vector = NULL THEN [m |-> m, ret |-> NULL]
    ELSE LET tmp == VECTOR_HEADER(vector)
         IN  IF m.heap[tmp].a = A_NULL THEN [m |-> m, ret |-> NULL]
             ELSE LET r == a_realloc(m, tmp, cap * m.heap[tmp].tsize + HeaderSize, out)
                  IN  IF r.ret = NULL THEN [m |-> r.m, ret |-> NULL]
                      ELSE [m |-> [r.m EXCEPT !.heap[r.ret].cap = cap,
                                              !.heap[r.ret].len = 0],
                            ret |-> r.ret]

\* void *vector_resize(void *vector, size_t cap)
vector_resize(m, vector, cap, out) ==
    IF vector = NULL
    THEN [m |-> m, ret |-> NULL]
    ELSE LET tmp == VECTOR_HEADER(vector)
         IN  IF m.heap[tmp].a = A_NULL
             THEN [m |-> m, ret |-> NULL]
             ELSE LET r == a_realloc(m, tmp, cap * m.heap[tmp].tsize + HeaderSize, out)
                  IN  IF r.ret = NULL
                      THEN [m |-> r.m, ret |-> NULL]
                      ELSE [m |-> [r.m EXCEPT !.heap[r.ret].cap = cap],
                            ret |-> r.ret]

\* void *vector_pop_back(void *vector): ret is the slot the returned pointer
\* designates, -1 for a NULL return
vector_pop_back(m, vector) ==
    IF vector = NULL
    THEN [m |-> m, ret |-> -1]
    ELSE LET hdr == VECTOR_HEADER(vector)
         IN  IF m.heap[hdr].len = 0
             THEN [m |-> m, ret |-> -1]
             ELSE [m |-> [m EXCEPT !.heap[hdr].len = @ - 1],
                   ret |-> m.heap[hdr].len - 1]

\* memmove(vector + dst, vector + src, n) in element units.  The n slots are
\* read before any is written.  A slot read outside the block yields an
\* arbitrary value g; a slot written outside the block is not in the block.
memmove(b, dst, src, n, g) ==
    [b EXCEPT !.data = [j \in 1..NumSlots(b) |->
        IF j - 1 >= dst /\ j - 1 < dst + n
        THEN IF InBlock(b, src + (j - 1 - dst))
             THEN b.data[src + (j - 1 - dst) + 1]
             ELSE g
        ELSE b.data[j]]]

\* whether memmove(vector + dst, vector + src, n) leaves the block
memmove_oob(b, dst, src, n) ==
    n > 0 /\ (src + n > NumSlots(b) \/ dst + n > NumSlots(b))

\* int vector_remove(void *vector, size_t index)
vector_remove(m, vector, index, g, oob) ==
    IF vector = NULL
    THEN [m |-> m, ret |-> 1, ub |-> FALSE, aborted |-> FALSE]
    ELSE LET hdr == VECTOR_HEADER(vector)
             h == m.heap[hdr]
             moves == h.len > 1 /\ index # h.len - 1
             n == h.len - index - 1
             ub == moves /\ memmove_oob(h, index, index + 1, n)
             moved == IF moves THEN memmove(h, index, index + 1, n, g) ELSE h
         IN  IF index >= h.len
             THEN [m |-> m, ret |-> 1, ub |-> FALSE, aborted |-> FALSE]
             ELSE IF ub /\ oob = "abort"
             THEN [m |-> m, ret |-> 1, ub |-> TRUE, aborted |-> TRUE]
             ELSE [m |-> [m EXCEPT !.heap[hdr] = [moved EXCEPT !.len = @ - 1]],
                   ret |-> 0, ub |-> ub, aborted |-> FALSE]

\* vector_remove_ordered with the bounds check off by one (index > len)
vector_remove_ordered_off_by_one(m, vector, index, g, oob) ==
    IF vector = NULL
    THEN [m |-> m, ret |-> 1, ub |-> FALSE, aborted |-> FALSE]
    ELSE LET hdr == VECTOR_HEADER(vector)
             h == m.heap[hdr]
             moves == h.len > 1 /\ index # h.len - 1
             ub == moves /\ memmove_oob(h, index, index + 1, 1)
             moved == IF moves THEN memmove(h, index, index + 1, 1, g) ELSE h
         IN  IF index > h.len
             THEN [m |-> m, ret |-> 1, ub |-> FALSE, aborted |-> FALSE]
             ELSE IF ub /\ oob = "abort"
             THEN [m |-> m, ret |-> 1, ub |-> TRUE, aborted |-> TRUE]
             ELSE [m |-> [m EXCEPT !.heap[hdr] = [moved EXCEPT !.len = @ - 1]],
                   ret |-> 0, ub |-> ub, aborted |-> FALSE]

\* int vector_remove_ordered(void *vector, size_t index)
vector_remove_ordered(m, vector, index, g, oob) ==
    IF vector = NULL
    THEN [m |-> m, ret |-> 1, ub |-> FALSE, aborted |-> FALSE]
    ELSE LET hdr == VECTOR_HEADER(vector)
             h == m.heap[hdr]
             moves == h.len > 1 /\ index # h.len - 1
             ub == moves /\ memmove_oob(h, index, index + 1, 1)
             moved == IF moves THEN memmove(h, index, index + 1, 1, g) ELSE h
         IN  IF index >= h.len
             THEN [m |-> m, ret |-> 1, ub |-> FALSE, aborted |-> FALSE]
             ELSE IF ub /\ oob = "abort"
             THEN [m |-> m, ret |-> 1, ub |-> TRUE, aborted |-> TRUE]
             ELSE [m |-> [m EXCEPT !.heap[hdr] = [moved EXCEPT !.len = @ - 1]],
                   ret |-> 0, ub |-> ub, aborted |-> FALSE]

\* void *vector_shrink_to_fit(void *vector)
vector_shrink_to_fit(m, vector, out) ==
    IF vector = NULL
    THEN [m |-> m, ret |-> NULL]
    ELSE vector_resize(m, vector, m.heap[VECTOR_HEADER(vector)].len, out)

\* ------------------------------------------------------ source/vector.h
\* vector_push_back with the growth capacity and the failure check as given
push_back_variant(m, vec, item, out, oob, newcap, checked) ==
    LET _len == vector_get_len(m, vec)
        full == ~vector_can_append(m, vec)
        r == IF full
             THEN vector_resize(m, vec, newcap, out)
             ELSE [m |-> m, ret |-> vec]
        alloc == IF full THEN out.kind ELSE "none"
        now == IF r.ret = NULL THEN vec ELSE r.ret
        ub == ~InBlock(r.m.heap[VECTOR_HEADER(now)], _len)
        stored == IF ub
                  THEN r.m
                  ELSE [r.m EXCEPT !.heap[VECTOR_HEADER(now)].data[_len + 1] = item]
    IN  IF checked /\ r.ret = NULL
        THEN [m |-> r.m, v |-> vec, alloc |-> alloc, ub |-> FALSE, aborted |-> FALSE]
        ELSE [m |-> vector_set_len(stored, now, _len + 1).m,
              v |-> now, alloc |-> alloc, ub |-> ub, aborted |-> FALSE]

\* vector_push_back carrying on after a failed resize
vector_push_back_unchecked(m, vec, item, out, oob) ==
    push_back_variant(m, vec, item, out, oob, (vector_get_cap(m, vec) + 1) * 2, FALSE)

\* vector_push_back growing to twice the capacity, without the + 1
vector_push_back_doubling(m, vec, item, out, oob) ==
    push_back_variant(m, vec, item, out, oob, vector_get_cap(m, vec) * 2, TRUE)

\* #define vector_push_back(v, item): the caller's pointer v is reassigned
\* when the block is resized; `alloc` is what realloc did ("none": not called)
vector_push_back(m, vec, item, out, oob) ==
    IF vec = NULL
    THEN [m |-> m, v |-> vec, alloc |-> "none", ub |-> FALSE, aborted |-> FALSE]
    ELSE LET _cap == vector_get_cap(m, vec)
             _len == vector_get_len(m, vec)
             full == ~vector_can_append(m, vec)
             r == IF full
                  THEN vector_resize(m, vec, (_cap + 1) * 2, out)
                  ELSE [m |-> m, ret |-> vec]
             alloc == IF full THEN out.kind ELSE "none"
         IN  IF r.ret = NULL
             THEN [m |-> r.m, v |-> vec, alloc |-> alloc,
                   ub |-> FALSE, aborted |-> FALSE]
             ELSE LET ub == ~InBlock(r.m.heap[VECTOR_HEADER(r.ret)], _len)
                      stored == IF ub
                                THEN r.m
                                ELSE [r.m EXCEPT
                                        !.heap[VECTOR_HEADER(r.ret)].data[_len + 1] = item]
                  IN  IF ub /\ oob = "abort"
                      THEN [m |-> r.m, v |-> r.ret, alloc |-> alloc,
                            ub |-> TRUE, aborted |-> TRUE]
                      ELSE [m |-> vector_set_len(stored, r.ret, _len + 1).m,
                            v |-> r.ret, alloc |-> alloc,
                            ub |-> ub, aborted |-> FALSE]

\* int vector_push_all(void* vector, const void* data, size_t count)
\* (source/vector.h, with the functions of source/vector.c).  hdr is taken
\* before vector_resize and used after it: when the block has moved, hdr
\* points into the released block, so reading hdr->len and hdr->tsize and
\* adding to hdr->len are invalid accesses.  The process then aborts, or it
\* carries on: the reads find the old header, the write lands in released
\* memory.  The new pointer stays in the parameter: the result is an int.
vector_push_all(m, vector, data, out, oob) ==
    IF vector = NULL
    THEN [m |-> m, ret |-> 1, alloc |-> "none", ub |-> FALSE,
          aborted |-> FALSE, released |-> FALSE]
    ELSE LET hdr == VECTOR_HEADER(vector)
             h == m.heap[hdr]
             count == Len(data)
             grows == h.len + count > h.cap
             new_cap == IF h.cap * 2 > h.len + count
                        THEN h.cap * 2
                        ELSE h.len + count
             r == IF grows
                  THEN vector_resize(m, vector, new_cap, out)
                  ELSE [m |-> m, ret |-> vector]
             alloc == IF grows THEN out.kind ELSE "none"
         IN  IF r.ret = NULL
             THEN [m |-> r.m, ret |-> 1, alloc |-> alloc, ub |-> FALSE,
                   aborted |-> FALSE, released |-> FALSE]
             ELSE LET now == VECTOR_HEADER(r.ret)
                      b == r.m.heap[now]
                      copied == [b EXCEPT !.data = [j \in 1..NumSlots(b) |->
                                    IF j - 1 >= h.len /\ j - 1 < h.len + count
                                    THEN data[j - h.len]
                                    ELSE b.data[j]]]
                      beyond == count > 0 /\ h.len + count > NumSlots(b)
                  IN  IF now # hdr
                      THEN IF oob = "abort"
                           THEN [m |-> r.m, ret |-> 1, alloc |-> alloc, ub |-> TRUE,
                                 aborted |-> TRUE, released |-> TRUE]
                           ELSE [m |-> [r.m EXCEPT !.heap[now] = copied],
                                 ret |-> 0, alloc |-> alloc, ub |-> TRUE,
                                 aborted |-> FALSE, released |-> TRUE]
                      ELSE IF beyond /\ oob = "abort"
                      THEN [m |-> r.m, ret |-> 1, alloc |-> alloc, ub |-> TRUE,
                            aborted |-> TRUE, released |-> FALSE]
                      ELSE [m |-> [r.m EXCEPT !.heap[now] =
                                                 [copied EXCEPT !.len = @ + count]],
                            ret |-> 0, alloc |-> alloc, ub |-> beyond,
                            aborted |-> FALSE, released |-> FALSE]

\* void *vector_normal_copy(void *vector, void *(*malloc_fn)(size_t)):
\* fn is whether malloc_fn is non-null, out what malloc_fn does.  The buffer
\* belongs to the caller and has no header: the result gives its address
\* (ret) and its contents (raw), and the heap of vector blocks is unchanged.
\* memcpy reads len * tsize bytes from vector; g is read where that leaves
\* the block.
vector_normal_copy(m, vector, fn, out, g, oob) ==
    IF vector = NULL \/ ~fn
    THEN [m |-> m, ret |-> NULL, raw |-> <<>>, ub |-> FALSE, aborted |-> FALSE]
    ELSE LET hdr == VECTOR_HEADER(vector)
             h == m.heap[hdr]
             total_size == h.len * h.tsize
             beyond == h.len > NumSlots(h)
         IN  IF total_size = 0 \/ out.kind = "fail"
             THEN [m |-> m, ret |-> NULL, raw |-> <<>>, ub |-> FALSE,
                   aborted |-> FALSE]
             ELSE IF beyond /\ oob = "abort"
             THEN [m |-> m, ret |-> NULL, raw |-> <<>>, ub |-> TRUE,
                   aborted |-> TRUE]
             ELSE [m |-> m, ret |-> out.addr,
                   raw |-> [i \in 1..(total_size \div h.tsize) |->
                              IF InBlock(h, i - 1) THEN h.data[i] ELSE g],
                   ub |-> beyond, aborted |-> FALSE]

\* ------------------------------- source/vector.h, the status-code variant
\* (vector_init, vector_free, vector_can_append, vector_get_cap,
\* vector_get_len and vector_remove are the code of source/vector.c with
\* status codes for results)

\* void *vector_resize(void *vector, size_t cap): the length is cut to cap
vector_resize_truncating(m, vector, cap, out) ==
    IF vector = NULL THEN [m |-> m, ret |-> NULL]
    ELSE LET hdr == VECTOR_HEADER(vector)
         IN  IF m.heap[hdr].a = A_NULL THEN [m |-> m, ret |-> NULL]
             ELSE LET r == a_realloc(m, hdr, cap * m.heap[hdr].tsize + HeaderSize, out)
                  IN  IF r.ret = NULL THEN [m |-> r.m, ret |-> NULL]
                      ELSE [m |-> [r.m EXCEPT !.heap[r.ret].cap = cap,
                                              !.heap[r.ret].len = Min(@, cap)],
                            ret |-> r.ret]

\* vector_status_t vector_pop_back(void *vector, void *out): `out` tells
\* whether the out pointer is non-null; popped is the value copied to *out
vector_pop_back_out(m, vector, out) ==
    IF vector = NULL \/ ~out
    THEN [m |-> m, ret |-> "VEC_ERR", popped |-> Outside]
    ELSE LET hdr == VECTOR_HEADER(vector)
         IN  IF m.heap[hdr].len = 0
             THEN [m |-> m, ret |-> "VEC_EMPTY", popped |-> Outside]
             ELSE [m |-> [m EXCEPT !.heap[hdr].len = @ - 1],
                   ret |-> "VEC_OK",
                   popped |-> Elem(m.heap[hdr], m.heap[hdr].len - 1)]

\* void internal_vector_set_len(void *vector, size_t len)
internal_vector_set_len(m, vector, len) ==
    IF vector = NULL THEN m
    ELSE [m EXCEPT !.heap[VECTOR_HEADER(vector)].len = len]

\* internal_vector_prepare_insert shifting `shift` elements fewer than
\* [index, len), and checking the result of vector_resize or not
prepare_insert_variant(m, vptr, item_size, index, out, g, oob, shift, checked) ==
    LET len == vector_get_len(m, vptr)
        cap == vector_get_cap(m, vptr)
        full == ~vector_can_append(m, vptr)
        r == IF full
             THEN vector_resize_truncating(m, vptr, (cap + 1) * 2, out)
             ELSE [m |-> m, ret |-> vptr]
        alloc == IF full THEN out.kind ELSE "none"
        now == IF r.ret = NULL THEN vptr ELSE r.ret
        b == r.m.heap[VECTOR_HEADER(now)]
        dst == ((index + 1) * item_size) \div b.tsize
        src == (index * item_size) \div b.tsize
        n == ((len - index - shift) * item_size) \div b.tsize
    IN  IF index > len \/ (checked /\ r.ret = NULL)
        THEN [m |-> r.m, ret |-> NULL, alloc |-> alloc,
              ub |-> FALSE, aborted |-> FALSE]
        ELSE [m |-> [r.m EXCEPT !.heap[VECTOR_HEADER(now)] = memmove(b, dst, src, n, g)],
              ret |-> now, alloc |-> alloc,
              ub |-> memmove_oob(b, dst, src, n), aborted |-> FALSE]

\* internal_vector_prepare_insert leaving the last element where it is
internal_vector_prepare_insert_short_shift(m, vptr, item_size, index, out, g, oob) ==
    prepare_insert_variant(m, vptr, item_size, index, out, g, oob, 1, TRUE)

\* internal_vector_prepare_insert carrying on after a failed resize
internal_vector_prepare_insert_unchecked(m, vptr, item_size, index, out, g, oob) ==
    prepare_insert_variant(m, vptr, item_size, index, out, g, oob, 0, FALSE)

\* void *internal_vector_prepare_insert(void *vptr, size_t item_size,
\*                                      size_t index)
\* item_size is in bytes; the shift is a memmove of (len - index) items
internal_vector_prepare_insert(m, vptr, item_size, index, out, g, oob) ==
    IF vptr = NULL
    THEN [m |-> m, ret |-> NULL, alloc |-> "none", ub |-> FALSE, aborted |-> FALSE]
    ELSE LET len == vector_get_len(m, vptr)
             cap == vector_get_cap(m, vptr)
         IN  IF index > len
             THEN [m |-> m, ret |-> NULL, alloc |-> "none",
                   ub |-> FALSE, aborted |-> FALSE]
             ELSE LET full == ~vector_can_append(m, vptr)
                      r == IF full
                           THEN vector_resize_truncating(m, vptr, (cap + 1) * 2, out)
                           ELSE [m |-> m, ret |-> vptr]
                      alloc == IF full THEN out.kind ELSE "none"
                  IN  IF r.ret = NULL
                      THEN [m |-> r.m, ret |-> NULL, alloc |-> alloc,
                            ub |-> FALSE, aborted |-> FALSE]
                      ELSE LET b == r.m.heap[VECTOR_HEADER(r.ret)]
                               dst == ((index + 1) * item_size) \div b.tsize
                               src == (index * item_size) \div b.tsize
                               n == ((len - index) * item_size) \div b.tsize
                               ub == memmove_oob(b, dst, src, n)
                           IN  IF ub /\ oob = "abort"
                               THEN [m |-> r.m, ret |-> r.ret, alloc |-> alloc,
                                     ub |-> TRUE, aborted |-> TRUE]
                               ELSE [m |-> [r.m EXCEPT !.heap[VECTOR_HEADER(r.ret)] =
                                                          memmove(b, dst, src, n, g)],
                                     ret |-> r.ret, alloc |-> alloc,
                                     ub |-> ub, aborted |-> FALSE]

\* vector_insert(v, index, item): the macro over
\* internal_vector_prepare_insert.  When the preparation succeeds the caller's
\* pointer is reassigned, the item is written at index and the length grows
\* by one; otherwise nothing more is done.  ret is 0 on success, 1 otherwise.
vector_insert(m, vec, index, item, out, g, oob) ==
    IF vec = NULL
    THEN [m |-> m, v |-> vec, ret |-> 1, alloc |-> "none",
          ub |-> FALSE, aborted |-> FALSE]
    ELSE LET _len == vector_get_len(m, vec)
             p == internal_vector_prepare_insert(
                      m, vec, m.heap[VECTOR_HEADER(vec)].tsize, index, out, g, oob)
         IN  IF p.ret = NULL
             THEN [m |-> p.m, v |-> vec, ret |-> 1, alloc |-> p.alloc,
                   ub |-> FALSE, aborted |-> FALSE]
             ELSE IF p.aborted
             THEN [m |-> p.m, v |-> p.ret, ret |-> 1, alloc |-> p.alloc,
                   ub |-> TRUE, aborted |-> TRUE]
             ELSE LET hdr == VECTOR_HEADER(p.ret)
                      ub == ~InBlock(p.m.heap[hdr], index)
                      stored == IF ub THEN p.m
                                ELSE [p.m EXCEPT !.heap[hdr].data[index + 1] = item]
                  IN  IF ub /\ oob = "abort"
                      THEN [m |-> p.m, v |-> p.ret, ret |-> 1, alloc |-> p.alloc,
                            ub |-> TRUE, aborted |-> TRUE]
                      ELSE [m |-> internal_vector_set_len(stored, p.ret, _len + 1),
                            v |-> p.ret, ret |-> 0, alloc |-> p.alloc,
                            ub |-> p.ub \/ ub, aborted |-> FALSE]


\* ------------------------------------------------------------- behaviour
NoOp ==
    [op |-> "none", arg |-> 0, item |-> 0, ret |-> 0, alloc |-> "none",
     ub |-> FALSE, pv |-> NULL, pb |-> EmptyBlock]

\* the record of an operation applied to the current vector
Record(op, arg, item, ret, alloc, ub) ==
    [op |-> op, arg |-> arg, item |-> item, ret |-> ret, alloc |-> alloc,
     ub |-> ub, pv |-> v, pb |-> IF v = NULL THEN EmptyBlock ELSE heap[v]]

\* no freshly created vector is being followed
NoFill == [phase |-> "off", cap0 |-> 0, pushed |-> <<>>]

\* test_can_append seen from outside: a vector created with capacity cap0
\* ("filling"), the values pushed into it while it has room, and then one
\* successful vector_resize to twice cap0 once it is full ("doubled")
Filled(f, l) ==
    IF l.op = "init"
    THEN IF l.ret = NULL THEN NoFill
         ELSE [phase |-> "filling", cap0 |-> l.arg, pushed |-> <<>>]
    ELSE IF l.op = "can_append" THEN f
    ELSE IF l.op = "push_back" /\ f.phase = "filling" /\ Len(f.pushed) < f.cap0
    THEN [f EXCEPT !.pushed = Append(@, l.item)]
    ELSE IF /\ l.op = "resize" /\ f.phase = "filling" /\ Len(f.pushed) = f.cap0
            /\ l.arg = 2 * f.cap0 /\ l.ret # NULL
    THEN [f EXCEPT !.phase = "doubled"]
    ELSE NoFill

ObserveFill == fill' = Filled(fill, last')

\* no vector of vectors is being built
NoNest ==
    [pc |-> "off", inner |-> NULL, made |-> 0, kept |-> <<>>, next |-> 0,
     lost |-> {}, twice |-> FALSE]

Init ==
    /\ heap = [p \in Addrs |-> EmptyBlock]
    /\ live = {}
    /\ v = NULL
    /\ status = "running"
    /\ last = NoOp
    /\ fill = NoFill
    /\ nest = NoNest

\* int *vec = vector_init(tsize, cap, a);
VectorInit ==
    /\ status = "running"
    /\ v = NULL
    /\ \E tsize \in ElemSizes, cap \in 0..MaxCap, a \in {A_NULL, A_STD} :
         \E out \in (IF a = A_NULL THEN {NoOutcome} ELSE MallocOutcomes(Mem, cap)) :
            \E r \in {vector_init(Mem, tsize, cap, a, out)} :
                /\ heap' = r.m.heap
                /\ live' = r.m.live
                /\ v' = r.ret
                /\ last' = Record("init", cap, tsize, r.ret, out.kind, FALSE)
    /\ UNCHANGED status
    /\ ObserveFill
    /\ UNCHANGED nest

\* vector_free(vec); the caller drops the pointer
VectorFree ==
    /\ status = "running"
    /\ v # NULL
    /\ \E r \in {vector_free(Mem, v)} :
           /\ heap' = r.m.heap
           /\ live' = r.m.live
           /\ v' = IF r.ret = 0 THEN NULL ELSE v
           /\ last' = Record("free", 0, 0, r.ret, "none", FALSE)
    /\ UNCHANGED status
    /\ ObserveFill
    /\ UNCHANGED nest

\* vector_push_back(vec, item);
PushBack ==
    /\ status = "running"
    /\ v # NULL
    /\ vector_get_len(Mem, v) < MaxLen
    /\ vector_can_append(Mem, v) \/ (vector_get_cap(Mem, v) + 1) * 2 <= MaxCap
    /\ \E item \in Items, oob \in OutOfBounds(heap[v]) :
         \E out \in (IF vector_can_append(Mem, v)
                     THEN {NoOutcome}
                     ELSE ReallocOutcomes(Mem, v, (vector_get_cap(Mem, v) + 1) * 2)) :
            \E r \in {vector_push_back(Mem, v, item, out, oob)} :
                /\ heap' = r.m.heap
                /\ live' = r.m.live
                /\ v' = r.v
                /\ status' = IF r.aborted THEN "aborted" ELSE "running"
                /\ last' = Record("push_back", 0, item, 0, r.alloc, r.ub)
    /\ ObserveFill
    /\ UNCHANGED nest

\* int *popped = vector_pop_back(vec);
PopBack ==
    /\ status = "running"
    /\ v # NULL
    /\ \E r \in {vector_pop_back(Mem, v)} :
           /\ heap' = r.m.heap
           /\ live' = r.m.live
           /\ last' = Record("pop_back", 0, 0, r.ret, "none", FALSE)
    /\ UNCHANGED <<v, status>>
    /\ ObserveFill
    /\ UNCHANGED nest

\* vector_pop_back(NULL): a pop through a pointer that holds no vector
PopBackNull ==
    /\ status = "running"
    /\ \E r \in {vector_pop_back(Mem, NULL)} :
           /\ heap' = r.m.heap
           /\ live' = r.m.live
           /\ last' = Record("pop_back_null", 0, 0, r.ret, "none", FALSE)
    /\ UNCHANGED <<v, status>>
    /\ ObserveFill
    /\ UNCHANGED nest

\* vector_remove(vec, index);
Remove ==
    /\ status = "running"
    /\ v # NULL
    /\ \E index \in 0..MaxLen, g \in OutsideValues(heap[v]), oob \in OutOfBounds(heap[v]) :
         \E r \in {vector_remove(Mem, v, index, g, oob)} :
             /\ heap' = r.m.heap
             /\ live' = r.m.live
             /\ status' = IF r.aborted THEN "aborted" ELSE "running"
             /\ last' = Record("remove", index, 0, r.ret, "none", r.ub)
    /\ UNCHANGED v
    /\ ObserveFill
    /\ UNCHANGED nest

\* vector_remove_ordered(vec, index);
RemoveOrdered ==
    /\ status = "running"
    /\ v # NULL
    /\ \E index \in 0..MaxLen, g \in OutsideValues(heap[v]), oob \in OutOfBounds(heap[v]) :
         \E r \in {vector_remove_ordered(Mem, v, index, g, oob)} :
             /\ heap' = r.m.heap
             /\ live' = r.m.live
             /\ status' = IF r.aborted THEN "aborted" ELSE "running"
             /\ last' = Record("remove_ordered", index, 0, r.ret, "none", r.ub)
    /\ UNCHANGED v
    /\ ObserveFill
    /\ UNCHANGED nest

\* tmp = vector_resize(vec, cap); if (tmp) vec = tmp;
Resize ==
    /\ status = "running"
    /\ v # NULL
    /\ \E cap \in 0..MaxCap :
         \E out \in ReallocOutcomes(Mem, v, cap) :
            \E r \in {vector_resize(Mem, v, cap, out)} :
                /\ heap' = r.m.heap
                /\ live' = r.m.live
                /\ v' = IF r.ret = NULL THEN v ELSE r.ret
                /\ last' = Record("resize", cap, 0, r.ret, out.kind, FALSE)
    /\ UNCHANGED status
    /\ ObserveFill
    /\ UNCHANGED nest

\* tmp = vector_shrink_to_fit(vec); if (tmp) vec = tmp;
ShrinkToFit ==
    /\ status = "running"
    /\ v # NULL
    /\ \E out \in ReallocOutcomes(Mem, v, vector_get_len(Mem, v)) :
         \E r \in {vector_shrink_to_fit(Mem, v, out)} :
             /\ heap' = r.m.heap
             /\ live' = r.m.live
             /\ v' = IF r.ret = NULL THEN v ELSE r.ret
             /\ last' = Record("shrink_to_fit", 0, 0, r.ret, out.kind, FALSE)
    /\ UNCHANGED status
    /\ ObserveFill
    /\ UNCHANGED nest

\* the source sequences handed to vector_push_all
Sources == {<<>>, <<1>>, <<2>>, <<1, 2>>, <<2, 1>>}

\* the capacity vector_push_all asks for when it grows
PushAllCap(b, count) ==
    IF b.cap * 2 > b.len + count THEN b.cap * 2 ELSE b.len + count

\* vector_push_all(vec, data, count); the caller goes on with vec
PushAll ==
    /\ status = "running"
    /\ v # NULL
    /\ \E data \in Sources :
         /\ vector_get_len(Mem, v) + Len(data) <= MaxLen
         /\ PushAllCap(heap[v], Len(data)) <= MaxCap
         /\ \E out \in (IF vector_get_len(Mem, v) + Len(data) > vector_get_cap(Mem, v)
                         THEN ReallocOutcomes(Mem, v, PushAllCap(heap[v], Len(data)))
                         ELSE {NoOutcome}) :
              \E oob \in (IF out.kind = "move" THEN {"continue", "abort"}
                          ELSE OutOfBounds(heap[v])) :
                 \E r \in {vector_push_all(Mem, v, data, out, oob)} :
                     /\ heap' = r.m.heap
                     /\ live' = r.m.live
                     /\ status' = IF r.aborted THEN "aborted"
                                   ELSE IF r.released THEN "dangling"
                                   ELSE "running"
                     /\ last' = Record("push_all", 0, data, r.ret, r.alloc, r.ub)
    /\ UNCHANGED v
    /\ ObserveFill
    /\ UNCHANGED nest

\* vector_free(vec) on the pointer vector_push_all left behind: the header
\* read and the release go to a block that has been released already.  The
\* process aborts, or free returns and the heap is corrupt; the block the
\* vector moved to stays allocated either way.
FreeDangling ==
    /\ status = "dangling"
    /\ \E oob \in {"continue", "abort"} :
         /\ status' = IF oob = "abort" THEN "aborted" ELSE "corrupt"
         /\ v' = IF oob = "abort" THEN v ELSE NULL
         /\ last' = Record("free", 0, 0, IF oob = "abort" THEN 1 ELSE 0, "none", TRUE)
    /\ UNCHANGED <<heap, live>>
    /\ ObserveFill
    /\ UNCHANGED nest

\* if (vector_can_append(vec)) ...: the query leaves the vector alone
CanAppend ==
    /\ status = "running"
    /\ v # NULL
    /\ last' = Record("can_append", 0, 0,
                      IF vector_can_append(Mem, v) THEN 1 ELSE 0, "none", FALSE)
    /\ UNCHANGED <<heap, live, v, status>>
    /\ ObserveFill
    /\ UNCHANGED nest

\* vector_set_len(vec, len);
SetLen ==
    /\ status = "running"
    /\ v # NULL
    /\ \E len \in 0..MaxLen :
         \E r \in {vector_set_len(Mem, v, len)} :
             /\ heap' = r.m.heap
             /\ live' = r.m.live
             /\ last' = Record("set_len", len, 0, r.ret, "none", FALSE)
    /\ UNCHANGED <<v, status>>
    /\ ObserveFill
    /\ UNCHANGED nest

\* a length query that takes the length out of the header
GetLenClearing ==
    /\ status = "running"
    /\ v # NULL
    /\ heap' = [heap EXCEPT ![VECTOR_HEADER(v)].len = 0]
    /\ last' = Record("get_len", 0, 0, vector_get_len(Mem, v), "none", FALSE)
    /\ UNCHANGED <<live, v, status>>
    /\ ObserveFill
    /\ UNCHANGED nest

\* n = vector_get_len(vec);
GetLen ==
    /\ status = "running"
    /\ v # NULL
    /\ last' = Record("get_len", 0, 0, vector_get_len(Mem, v), "none", FALSE)
    /\ UNCHANGED <<heap, live, v, status>>
    /\ ObserveFill
    /\ UNCHANGED nest

\* n = vector_get_cap(vec);
GetCap ==
    /\ status = "running"
    /\ v # NULL
    /\ last' = Record("get_cap", 0, 0, vector_get_cap(Mem, v), "none", FALSE)
    /\ UNCHANGED <<heap, live, v, status>>
    /\ ObserveFill
    /\ UNCHANGED nest

\* what the caller's malloc_fn can do: NULL, or a buffer away from the vector
CopyOutcomes(m) ==
    {[kind |-> "fail", addr |-> NULL, junk |-> <<>>]}
    \cup {[kind |-> "ok", addr |-> p, junk |-> <<>>] : p \in FreshAddr(m)}

\* copy = vector_normal_copy(vec, malloc_fn);
NormalCopy ==
    /\ status = "running"
    /\ v # NULL
    /\ \E fn \in BOOLEAN :
         \E out \in (IF fn THEN CopyOutcomes(Mem) ELSE {NoOutcome}) :
            \E g \in OutsideValues(heap[v]) :
               \E oob \in OutOfBounds(heap[v]) :
                  \E r \in {vector_normal_copy(Mem, v, fn, out, g, oob)} :
                      /\ heap' = r.m.heap
                      /\ live' = r.m.live
                      /\ status' = IF r.aborted THEN "aborted" ELSE "running"
                      /\ last' = Record("normal_copy", IF fn THEN 1 ELSE 0,
                                        r.raw, r.ret, out.kind, r.ub)
    /\ UNCHANGED v
    /\ ObserveFill
    /\ UNCHANGED nest

Next ==
    \/ VectorInit
    \/ VectorFree
    \/ PushBack
    \/ PopBack
    \/ Remove
    \/ RemoveOrdered
    \/ Resize
    \/ ShrinkToFit
    \/ CanAppend
    \/ SetLen
    \/ PushAll
    \/ FreeDangling
    \/ PopBackNull
    \/ NormalCopy
    \/ GetLen
    \/ GetCap

Spec == Init /\ [][Next]_vars

\* the program that leaves the length to the library: no vector_set_len call
NextWithoutSetLen ==
    \/ VectorInit
    \/ VectorFree
    \/ PushBack
    \/ PopBack
    \/ Remove
    \/ RemoveOrdered
    \/ Resize
    \/ ShrinkToFit
    \/ CanAppend

SpecWithoutSetLen == Init /\ [][NextWithoutSetLen]_vars

\* the caller that never asks for a capacity below the length, nor for a
\* length above the capacity
ResizeAboveLen == Resize /\ last'.arg >= vector_get_len(Mem, v)

SetLenWithinCap == SetLen /\ last'.arg <= vector_get_cap(Mem, v)

NextCareful ==
    \/ VectorInit
    \/ VectorFree
    \/ PushBack
    \/ PopBack
    \/ Remove
    \/ RemoveOrdered
    \/ ResizeAboveLen
    \/ ShrinkToFit
    \/ CanAppend
    \/ SetLenWithinCap

SpecCareful == Init /\ [][NextCareful]_vars

\* ---------------------------------------- the status-code variant at work
\* vector_insert(vec, index, item);
Insert ==
    /\ status = "running"
    /\ v # NULL
    /\ vector_get_len(Mem, v) < MaxLen
    /\ vector_can_append(Mem, v) \/ (vector_get_cap(Mem, v) + 1) * 2 <= MaxCap
    /\ \E index \in 0..MaxLen, item \in Items,
          g \in OutsideValues(heap[v]), oob \in OutOfBounds(heap[v]) :
         \E out \in (IF vector_can_append(Mem, v) \/ index > vector_get_len(Mem, v)
                     THEN {NoOutcome}
                     ELSE ReallocOutcomes(Mem, v, (vector_get_cap(Mem, v) + 1) * 2)) :
            \E r \in {vector_insert(Mem, v, index, item, out, g, oob)} :
                /\ heap' = r.m.heap
                /\ live' = r.m.live
                /\ v' = r.v
                /\ status' = IF r.aborted THEN "aborted" ELSE "running"
                /\ last' = Record("insert", index, item, r.ret, r.alloc, r.ub)
    /\ ObserveFill
    /\ UNCHANGED nest

\* tmp = vector_resize(vec, cap); if (tmp) vec = tmp;
ResizeTruncating ==
    /\ status = "running"
    /\ v # NULL
    /\ \E cap \in 0..MaxCap :
         \E out \in ReallocOutcomes(Mem, v, cap) :
            \E r \in {vector_resize_truncating(Mem, v, cap, out)} :
                /\ heap' = r.m.heap
                /\ live' = r.m.live
                /\ v' = IF r.ret = NULL THEN v ELSE r.ret
                /\ last' = Record("resize", cap, 0, r.ret, out.kind, FALSE)
    /\ UNCHANGED status
    /\ ObserveFill
    /\ UNCHANGED nest

\* vector_pop_back(vec, &popped); also with a null vector or a null out
PopBackOut ==
    /\ status = "running"
    /\ \E vector \in {v, NULL}, out \in BOOLEAN :
         \E r \in {vector_pop_back_out(Mem, vector, out)} :
             /\ heap' = r.m.heap
             /\ live' = r.m.live
             /\ last' = [Record("pop_back_out", vector, r.popped, r.ret, "none", FALSE)
                            EXCEPT !.pv = vector,
                                   !.pb = IF vector = NULL THEN EmptyBlock
                                          ELSE heap[vector]]
    /\ UNCHANGED <<v, status>>
    /\ ObserveFill
    /\ UNCHANGED nest

\* a program over the status-code variant: vectors are built with
\* vector_insert and cut down with vector_remove and vector_resize
NextInserting ==
    \/ VectorInit
    \/ VectorFree
    \/ Insert
    \/ Remove
    \/ ResizeTruncating
    \/ CanAppend
    \/ PopBackOut

SpecInserting == Init /\ [][NextInserting]_vars

\* ------------------------------------------------- a vector of vectors
\* test_vector_of_vectors: v is the outer vector `vec`, nest.inner the local
\* `inner`.  nest.kept lists, in push order, the inner vectors that have
\* become elements of vec, each with the block it had when it was pushed;
\* nest.lost holds the inner vectors whose push found no memory (the macro
\* reports nothing and the test drops the pointer); nest.next is the index
\* of the freeing loop; nest.twice tells whether a block that was not
\* allocated has been passed to vector_free.
NestCaps == {0, 1}     \* capacities used in place of VECTOR_DEFAULT_CAP
InnerLens == {0, 1}    \* lengths the inner vectors are filled to

InitNested ==
    /\ heap = [p \in Addrs |-> EmptyBlock]
    /\ live = {}
    /\ v = NULL
    /\ status = "running"
    /\ last = NoOp
    /\ fill = NoFill
    /\ nest = [NoNest EXCEPT !.pc = "start"]

\* IntVector *vec = vector(IntVector, &a); if (!vec) return 1;
OuterInit ==
    /\ status = "running"
    /\ nest.pc = "start"
    /\ \E cap \in NestCaps :
         \E out \in MallocOutcomes(Mem, cap) :
            \E r \in {vector_init(Mem, PointerSize, cap, A_STD, out)} :
                /\ heap' = r.m.heap
                /\ live' = r.m.live
                /\ v' = r.ret
                /\ nest' = [nest EXCEPT !.pc = IF r.ret = NULL THEN "returned"
                                                ELSE "build"]
                /\ last' = Record("init", cap, PointerSize, r.ret, out.kind, FALSE)
    /\ UNCHANGED <<status, fill>>

\* int *inner = vector(int, &a); if (!inner) return 1;
InnerInit ==
    /\ status = "running"
    /\ nest.pc = "build"
    /\ nest.inner = NULL
    /\ nest.made < MaxInner
    /\ \E tsize \in ElemSizes, cap \in NestCaps :
         \E out \in MallocOutcomes(Mem, cap) :
            \E r \in {vector_init(Mem, tsize, cap, A_STD, out)} :
                /\ heap' = r.m.heap
                /\ live' = r.m.live
                /\ nest' = [nest EXCEPT !.pc = IF r.ret = NULL THEN "returned"
                                                ELSE "build",
                                        !.inner = r.ret,
                                        !.made = @ + 1]
                /\ last' = Record("inner_init", cap, tsize, r.ret, out.kind, FALSE)
    /\ UNCHANGED <<v, status, fill>>

\* vector_push_back(inner, (int)i * 10 + j);
InnerPush ==
    /\ status = "running"
    /\ nest.pc = "build"
    /\ nest.inner # NULL
    /\ vector_get_len(Mem, nest.inner) + 1 \in InnerLens
    /\ \E item \in Items, oob \in OutOfBounds(heap[nest.inner]) :
         \E out \in (IF vector_can_append(Mem, nest.inner)
                     THEN {NoOutcome}
                     ELSE ReallocOutcomes(Mem, nest.inner,
                              (vector_get_cap(Mem, nest.inner) + 1) * 2)) :
            \E r \in {vector_push_back(Mem, nest.inner, item, out, oob)} :
                /\ heap' = r.m.heap
                /\ live' = r.m.live
                /\ status' = IF r.aborted THEN "aborted" ELSE "running"
                /\ nest' = [nest EXCEPT !.inner = r.v]
                /\ last' = Record("inner_push", nest.inner, item, r.v, r.alloc, r.ub)
    /\ UNCHANGED <<v, fill>>

\* vector_push_back(vec, inner); the loop body ends and `inner` is gone
OuterPush ==
    /\ status = "running"
    /\ nest.pc = "build"
    /\ nest.inner # NULL
    /\ \E oob \in OutOfBounds(heap[v]) :
         \E out \in (IF vector_can_append(Mem, v)
                     THEN {NoOutcome}
                     ELSE ReallocOutcomes(Mem, v, (vector_get_cap(Mem, v) + 1) * 2)) :
            \E r \in {vector_push_back(Mem, v, nest.inner, out, oob)} :
            LET pushed == vector_get_len(r.m, r.v) = vector_get_len(Mem, v) + 1
            IN  /\ heap' = r.m.heap
                /\ live' = r.m.live
                /\ v' = r.v
                /\ status' = IF r.aborted THEN "aborted" ELSE "running"
                /\ nest' = [nest EXCEPT
                               !.inner = NULL,
                               !.kept = IF pushed
                                        THEN Append(@, [h |-> nest.inner,
                                                        b |-> heap[nest.inner]])
                                        ELSE @,
                               !.lost = IF pushed THEN @ ELSE @ \cup {nest.inner}]
                /\ last' = Record("push_back", 0, nest.inner, 0, r.alloc, r.ub)
    /\ UNCHANGED fill

\* the loops are over
Built == nest.pc = "teardown" \/ (nest.pc = "build" /\ nest.inner = NULL)

\* for (i = 0; i < len; ++i) vector_free(vec[i]);
FreeInner ==
    /\ status = "running"
    /\ Built
    /\ nest.next < vector_get_len(Mem, v)
    /\ \E p \in {Elem(heap[v], nest.next)} :
       \E r \in {vector_free(Mem, p)} :
           /\ heap' = r.m.heap
           /\ live' = r.m.live
           /\ nest' = [nest EXCEPT !.pc = "teardown",
                                   !.next = @ + 1,
                                   !.twice = @ \/ p \notin live]
           /\ last' = Record("inner_free", nest.next, p, r.ret, "none", p \notin live)
    /\ UNCHANGED <<v, status, fill>>

\* vector_free(vec); return 0;
FreeOuter ==
    /\ status = "running"
    /\ Built
    /\ nest.next = vector_get_len(Mem, v)
    /\ \E r \in {vector_free(Mem, v)} :
           /\ heap' = r.m.heap
           /\ live' = r.m.live
           /\ v' = NULL
           /\ nest' = [nest EXCEPT !.pc = "done",
                                   !.twice = @ \/ v \notin live]
           /\ last' = Record("free", 0, 0, r.ret, "none", v \notin live)
    /\ UNCHANGED <<status, fill>>

NextNested ==
    \/ OuterInit
    \/ InnerInit
    \/ InnerPush
    \/ OuterPush
    \/ FreeInner
    \/ FreeOuter

SpecNested == InitNested /\ [][NextNested]_vars

\* ===================================================== size_t arithmetic
\* The library with size_t of Width bits: byte counts and capacities are
\* computed modulo 2^Width as the C code computes them.  Only the sizes are
\* followed here: a block keeps its byte size and its header, its element
\* contents are left out (data stays empty).

\* the largest size_t
SizeMax == 2^Width - 1

\* conversion of an arithmetic result to size_t
size_t(x) == x % (SizeMax + 1)

\* the capacities and lengths the caller passes: small ones, and ones near
\* the quarter, the half and the top of the range
WideCaps ==
    {0, 1, 2, SizeMax \div 8, SizeMax \div 4, SizeMax \div 4 + 1,
     SizeMax \div 2, SizeMax}

\* the element sizes the caller passes: char and int
WideSizes == {1, 4}

\* what malloc can do here: NULL, or a block at a free address
WideMallocOutcomes(m) ==
    {[kind |-> "fail", addr |-> NULL, junk |-> <<>>]}
    \cup {[kind |-> "ok", addr |-> p, junk |-> <<>>] : p \in FreshAddr(m)}

\* what realloc can do with block p here
WideReallocOutcomes(m, p) ==
    {[kind |-> "fail", addr |-> NULL, junk |-> <<>>],
     [kind |-> "inplace", addr |-> p, junk |-> <<>>]}
    \cup {[kind |-> "move", addr |-> q, junk |-> <<>>] : q \in FreshAddr(m)}

\* vector_init: the byte count sizeof(h) + tsize * cap is a size_t; *tmp = h
\* writes sizeof(h) bytes, beyond the block when the block is smaller
vector_init_w(m, tsize, cap, a, out, oob) ==
    IF a = A_NULL
    THEN [m |-> m, ret |-> NULL, ub |-> FALSE, aborted |-> FALSE]
    ELSE LET bytes == size_t(HeaderSize + size_t(tsize * cap))
             r == a_malloc(m, bytes, out)
             ub == bytes < HeaderSize
         IN  IF r.ret = NULL
             THEN [m |-> r.m, ret |-> NULL, ub |-> FALSE, aborted |-> FALSE]
             ELSE IF ub /\ oob = "abort"
             THEN [m |-> r.m, ret |-> NULL, ub |-> TRUE, aborted |-> TRUE]
             ELSE [m |-> [r.m EXCEPT !.heap[r.ret].cap = cap,
                                     !.heap[r.ret].len = 0,
                                     !.heap[r.ret].tsize = tsize,
                                     !.heap[r.ret].a = a],
                   ret |-> r.ret, ub |-> ub, aborted |-> FALSE]

\* vector_resize: the byte count cap * tmp->tsize + sizeof(VectorHeader) is
\* a size_t; tmp->a and tmp->tsize are read beyond a block that is smaller
\* than the header
vector_resize_w(m, vector, cap, out, oob) ==
    IF vector = NULL
    THEN [m |-> m, ret |-> NULL, ub |-> FALSE, aborted |-> FALSE]
    ELSE LET tmp == VECTOR_HEADER(vector)
             old == m.heap[tmp]
             ub == old.size < HeaderSize
             bytes == size_t(size_t(cap * old.tsize) + HeaderSize)
         IN  IF ub /\ oob = "abort"
             THEN [m |-> m, ret |-> NULL, ub |-> TRUE, aborted |-> TRUE]
             ELSE IF old.a = A_NULL \/ out.kind = "fail"
             THEN [m |-> m, ret |-> NULL, ub |-> ub, aborted |-> FALSE]
             ELSE [m |-> [heap |-> [[m.heap EXCEPT ![tmp] = EmptyBlock]
                                       EXCEPT ![out.addr] =
                                           [old EXCEPT !.size = bytes, !.cap = cap]],
                          live |-> (m.live \ {tmp}) \cup {out.addr}],
                   ret |-> out.addr, ub |-> ub, aborted |-> FALSE]

\* #define vector_push_back(v, item) with _len and _cap of type size_t:
\* the new capacity (_cap + 1) * 2 and the new length _len + 1 are size_t
vector_push_back_w(m, vec, out, oob) ==
    IF vec = NULL
    THEN [m |-> m, v |-> vec, alloc |-> "none", ub |-> FALSE, aborted |-> FALSE]
    ELSE LET _cap == vector_get_cap(m, vec)
             _len == vector_get_len(m, vec)
             full == ~vector_can_append(m, vec)
             r == IF full
                  THEN vector_resize_w(m, vec, size_t(size_t(_cap + 1) * 2), out, oob)
                  ELSE [m |-> m, ret |-> vec, ub |-> FALSE, aborted |-> FALSE]
             alloc == IF full THEN out.kind ELSE "none"
         IN  IF r.aborted
             THEN [m |-> r.m, v |-> vec, alloc |-> alloc, ub |-> TRUE,
                   aborted |-> TRUE]
             ELSE IF r.ret = NULL
             THEN [m |-> r.m, v |-> vec, alloc |-> alloc, ub |-> r.ub,
                   aborted |-> FALSE]
             ELSE LET b == r.m.heap[VECTOR_HEADER(r.ret)]
                      ub == _len >= Slots(b.size, b.tsize)
                  IN  IF ub /\ oob = "abort"
                      THEN [m |-> r.m, v |-> r.ret, alloc |-> alloc,
                            ub |-> TRUE, aborted |-> TRUE]
                      ELSE [m |-> vector_set_len(r.m, r.ret, size_t(_len + 1)).m,
                            v |-> r.ret, alloc |-> alloc,
                            ub |-> ub \/ r.ub, aborted |-> FALSE]

\* vec = vector_init(tsize, cap, a);
InitWide ==
    /\ status = "running"
    /\ v = NULL
    /\ \E tsize \in WideSizes, cap \in WideCaps, oob \in {"continue", "abort"} :
         \E out \in WideMallocOutcomes(Mem) :
            \E r \in {vector_init_w(Mem, tsize, cap, A_STD, out, oob)} :
                /\ heap' = r.m.heap
                /\ live' = r.m.live
                /\ v' = r.ret
                /\ status' = IF r.aborted THEN "aborted" ELSE "running"
                /\ last' = Record("init", cap, tsize, r.ret, out.kind, r.ub)
    /\ UNCHANGED <<fill, nest>>

\* vector_free(vec);
FreeWide ==
    /\ status = "running"
    /\ v # NULL
    /\ \E r \in {vector_free(Mem, v)} :
           /\ heap' = r.m.heap
           /\ live' = r.m.live
           /\ v' = IF r.ret = 0 THEN NULL ELSE v
           /\ last' = Record("free", 0, 0, r.ret, "none", FALSE)
    /\ UNCHANGED <<status, fill, nest>>

\* tmp = vector_resize(vec, cap); if (tmp) vec = tmp; with cap no less than
\* the length
ResizeWide ==
    /\ status = "running"
    /\ v # NULL
    /\ \E cap \in WideCaps, oob \in {"continue", "abort"} :
         /\ cap >= vector_get_len(Mem, v)
         /\ \E out \in WideReallocOutcomes(Mem, v) :
            \E r \in {vector_resize_w(Mem, v, cap, out, oob)} :
                /\ heap' = r.m.heap
                /\ live' = r.m.live
                /\ v' = IF r.ret = NULL THEN v ELSE r.ret
                /\ status' = IF r.aborted THEN "aborted" ELSE "running"
                /\ last' = Record("resize", cap, 0, r.ret, out.kind, r.ub)
    /\ UNCHANGED <<fill, nest>>

\* vector_set_len(vec, len); with len no more than the capacity
SetLenWide ==
    /\ status = "running"
    /\ v # NULL
    /\ \E len \in WideCaps :
         /\ len <= vector_get_cap(Mem, v)
         /\ \E r \in {vector_set_len(Mem, v, len)} :
             /\ heap' = r.m.heap
             /\ live' = r.m.live
             /\ last' = Record("set_len", len, 0, r.ret, "none", FALSE)
    /\ UNCHANGED <<v, status, fill, nest>>

\* vector_push_back(vec, item); on a vector that is full
PushBackWide ==
    /\ status = "running"
    /\ v # NULL
    /\ ~vector_can_append(Mem, v)
    /\ \E oob \in {"continue", "abort"} :
         \E out \in WideReallocOutcomes(Mem, v) :
            \E r \in {vector_push_back_w(Mem, v, out, oob)} :
                /\ heap' = r.m.heap
                /\ live' = r.m.live
                /\ v' = r.v
                /\ status' = IF r.aborted THEN "aborted" ELSE "running"
                /\ last' = Record("push_back", 0, 0, 0, r.alloc, r.ub)
    /\ UNCHANGED <<fill, nest>>

NextWide ==
    \/ InitWide
    \/ FreeWide
    \/ ResizeWide
    \/ SetLenWide
    \/ PushBackWide

SpecWide == Init /\ [][NextWide]_vars

\* ============================================================== claims
\* the vector the caller holds, and the vector before the last operation
Cur == IF v = NULL THEN EmptyBlock ELSE heap[v]
Pre == last.pb

\* sequence s without its k-th element (k in 1..Len(s))
DeleteAt(s, k) == [i \in 1..(Len(s) - 1) |-> IF i < k THEN s[i] ELSE s[i + 1]]

\* how often x occurs in s
Count(s, x) == Cardinality({i \in DOMAIN s : s[i] = x})

\* s and t hold the same values the same number of times
SameBag(s, t) ==
    /\ Len(s) = Len(t)
    /\ \A x \in Items \cup {Outside} : Count(s, x) = Count(t, x)

\* C1: in every reachable state of a live vector the header satisfies
\* length <= capacity.
C1_LengthWithinCapacity ==
    v # NULL => heap[v].len <= heap[v].cap

\* C2: when the allocator does not fail, push_back(v, x) on a vector of
\* length n yields length n+1 with element[n] = x and elements [0, n)
\* unchanged, with or without growth or relocation.
C2_PushBackAppends ==
    (last.op = "push_back" /\ last.alloc # "fail") =>
        /\ status = "running"
        /\ Elems(Cur) = Append(Elems(Pre), last.item)

\* C2 restricted to vectors whose length does not exceed their storage
PushBackAppendsWithinStorage ==
    (last.op = "push_back" /\ last.alloc # "fail" /\ ~Overhangs(Pre)) =>
        /\ status = "running"
        /\ Elems(Cur) = Append(Elems(Pre), last.item)

\* C3: remove_ordered(v, i) with i < n returns success and leaves the
\* original element sequence with the element at position i deleted.
C3_RemoveOrderedDeletes ==
    (last.op = "remove_ordered" /\ last.arg < Pre.len) =>
        /\ status = "running"
        /\ last.ret = 0
        /\ Elems(Cur) = DeleteAt(Elems(Pre), last.arg + 1)

\* C4: pop_back on a vector of length n >= 1 decrements length to n-1,
\* yields the element that was at index n-1 and leaves capacity and the
\* elements [0, n-1) unchanged.
C4_PopBackYieldsLast ==
    (last.op = "pop_back" /\ Pre.len >= 1) =>
        /\ Cur.len = Pre.len - 1
        /\ last.ret = Pre.len - 1
        /\ InBlock(Cur, last.ret)
        /\ Elem(Cur, last.ret) = Elem(Pre, Pre.len - 1)
        /\ Cur.cap = Pre.cap
        /\ Elems(Cur) = SubSeq(Elems(Pre), 1, Pre.len - 1)

\* C4 restricted to vectors whose length does not exceed their storage
PopBackYieldsLastWithinStorage ==
    (last.op = "pop_back" /\ Pre.len >= 1 /\ ~Overhangs(Pre)) =>
        /\ Cur.len = Pre.len - 1
        /\ last.ret = Pre.len - 1
        /\ InBlock(Cur, last.ret)
        /\ Elem(Cur, last.ret) = Elem(Pre, Pre.len - 1)
        /\ Cur.cap = Pre.cap
        /\ Elems(Cur) = SubSeq(Elems(Pre), 1, Pre.len - 1)

\* C5: a push_back on a full vector whose reallocation fails is abandoned:
\* the caller's pointer, length, capacity and all elements are as before
\* and the block is still allocated.
C5_FailedPushLeavesVector ==
    (last.op = "push_back" /\ last.alloc = "fail") =>
        /\ status = "running"
        /\ v = last.pv
        /\ v \in live
        /\ heap[v] = Pre

C5_Witness ==
    /\ last.op = "push_back"
    /\ last.alloc = "fail"
    /\ Pre.len = Pre.cap
    /\ Pre.len >= 1

\* C6: a resize whose reallocation fails returns null and leaves the block
\* untouched: header, elements and the caller's pointer are as before.
C6_FailedResizeLeavesVector ==
    (last.op = "resize" /\ last.alloc = "fail") =>
        /\ last.ret = NULL
        /\ v = last.pv
        /\ v \in live
        /\ heap[v] = Pre

C6_Witness ==
    /\ last.op = "resize"
    /\ last.alloc = "fail"
    /\ Pre.len >= 1
    /\ last.arg # Pre.cap

\* C7: remove(v, i) with i < n returns success and leaves length n-1 with
\* the remaining elements a permutation of the original ones minus the
\* element at index i.
C7_RemoveKeepsOthers ==
    (last.op = "remove" /\ last.arg < Pre.len) =>
        /\ status = "running"
        /\ last.ret = 0
        /\ Cur.len = Pre.len - 1
        /\ SameBag(Elems(Cur), DeleteAt(Elems(Pre), last.arg + 1))

\* C7 restricted to vectors whose length does not exceed their storage
RemoveKeepsOthersWithinStorage ==
    (last.op = "remove" /\ last.arg < Pre.len /\ ~Overhangs(Pre)) =>
        /\ status = "running"
        /\ last.ret = 0
        /\ Cur.len = Pre.len - 1
        /\ SameBag(Elems(Cur), DeleteAt(Elems(Pre), last.arg + 1))

\* C8: remove and remove_ordered with an index >= length (length 0
\* included) return an error and leave length, capacity and all elements
\* unchanged.
C8_OutOfRangeRemoveRejected ==
    (last.op \in {"remove", "remove_ordered"} /\ last.arg >= Pre.len) =>
        /\ status = "running"
        /\ last.ret = 1
        /\ v = last.pv
        /\ heap[v] = Pre

C8_Witness ==
    /\ last.op = "remove_ordered"
    /\ Pre.len >= 2
    /\ last.arg = Pre.len

C10_ResizeKeepsPrefix ==
    (last.op = "resize" /\ last.ret # NULL) =>
        /\ v = last.ret
        /\ Cur.cap = last.arg
        /\ Cur.tsize = Pre.tsize
        /\ Cur.a = Pre.a
        /\ \A i \in 0..(Min(Pre.len, last.arg) - 1) : Elem(Cur, i) = Elem(Pre, i)

\* C10 restricted to vectors whose length does not exceed their storage
ResizeKeepsPrefixWithinStorage ==
    (last.op = "resize" /\ last.ret # NULL /\ ~Overhangs(Pre)) =>
        /\ v = last.ret
        /\ Cur.cap = last.arg
        /\ Cur.tsize = Pre.tsize
        /\ Cur.a = Pre.a
        /\ \A i \in 0..(Min(Pre.len, last.arg) - 1) : Elem(Cur, i) = Elem(Pre, i)

\* C11: for every non-null vector, in every reachable state, vector_can_append
\* answers true exactly when the length is below the capacity.
C11_CanAppendIffRoom ==
    last.op = "can_append" =>
        /\ (last.ret = 1) <=> (Pre.len < Pre.cap)
        /\ Cur = Pre

C11_Witness ==
    /\ last.op = "can_append"
    /\ last.ret = 0
    /\ Pre.cap > 0
    /\ Pre.len = Pre.cap
\* the vector created with capacity cap0 has received exactly cap0 pushes
FilledUp == fill.phase = "filling" /\ Len(fill.pushed) = fill.cap0

\* what C12 says of a vector created with capacity C, for the C in `caps`
FillThenDouble(caps) ==
    /\ (fill.phase = "filling" /\ last.op = "push_back") => last.alloc = "none"
    /\ (FilledUp /\ fill.cap0 \in caps) =>
            /\ ~vector_can_append(Mem, v)
            /\ Cur.cap = fill.cap0
            /\ Elems(Cur) = fill.pushed
    /\ (fill.phase = "doubled" /\ fill.cap0 \in caps) =>
            /\ vector_can_append(Mem, v)
            /\ Cur.cap = 2 * fill.cap0
            /\ Elems(Cur) = fill.pushed

\* C12 as stated: pushing exactly C elements into a fresh vector of capacity C
\* triggers no growth and leaves can_append false; a successful resize to 2*C
\* then makes can_append true and the C elements keep values and positions.
C12_FillThenDouble == FillThenDouble(0..MaxCap)

\* C12 amended: the same for every capacity C >= 1 (twice a capacity of 0 is
\* 0: the resized vector still has no room).
C12_FillThenDoublePositive == FillThenDouble(1..MaxCap)

C12_Witness ==
    /\ fill.phase = "doubled"
    /\ fill.cap0 = 2
    /\ last.op = "resize"
    /\ last.alloc = "move"
    /\ Cur.len = 2
\* C13: vector_shrink_to_fit(v) does what vector_resize(v, length) does: on
\* success the capacity equals the length, and the length and all elements are
\* unchanged; when realloc fails it returns NULL and the vector is unchanged.
C13_ShrinkToFitIsResizeToLen ==
    last.op = "shrink_to_fit" =>
        IF last.ret = NULL
        THEN /\ last.alloc = "fail"
             /\ v = last.pv
             /\ Cur = Pre
        ELSE /\ last.alloc # "fail"
             /\ v = last.ret
             /\ Cur.cap = Pre.len
             /\ Cur.len = Pre.len
             /\ Elems(Cur) = Elems(Pre)
             /\ Cur.tsize = Pre.tsize
             /\ Cur.a = Pre.a

\* C13 restricted to vectors whose length does not exceed their storage
ShrinkToFitWithinStorage ==
    (last.op = "shrink_to_fit" /\ ~Overhangs(Pre)) =>
        C13_ShrinkToFitIsResizeToLen
\* s with x put in front of its k-th element (k = 0 .. Len(s))
InsertAt(s, k, x) ==
    [i \in 1..(Len(s) + 1) |->
        IF i <= k THEN s[i] ELSE IF i = k + 1 THEN x ELSE s[i - 1]]

\* the memory before the last operation, as far as the vector is concerned
PreMem ==
    [heap |-> [p \in Addrs |-> IF p = last.pv THEN Pre ELSE EmptyBlock],
     live |-> {last.pv}]

\* what realloc did in the last operation: the block it returned and the
\* contents of the slots it added
LastOutcome ==
    [kind |-> last.alloc,
     addr |-> IF last.alloc = "none" THEN NULL ELSE v,
     junk |-> IF last.alloc = "none" THEN <<>>
              ELSE [i \in 1..(NumSlots(Cur) - NumSlots(Pre)) |->
                       IF NumSlots(Pre) + i = Pre.len + 1
                       THEN last.item
                       ELSE Cur.data[NumSlots(Pre) + i]]]

\* C14: vector_insert(v, i, x) with 0 <= i <= n whose growth, if any,
\* succeeds leaves length n + 1 and the old sequence with x inserted at index
\* i; inserting at i = n gives what vector_push_back(v, x) gives.
C14_InsertShiftsRight ==
    (last.op = "insert" /\ last.arg <= Pre.len /\ last.alloc # "fail") =>
        /\ last.ret = 0
        /\ ~last.ub
        /\ Cur.len = Pre.len + 1
        /\ Elems(Cur) = InsertAt(Elems(Pre), last.arg, last.item)
        /\ last.arg = Pre.len =>
               LET r == vector_push_back(PreMem, last.pv, last.item,
                                         LastOutcome, "continue")
               IN  r.v = v /\ r.m.heap[r.v] = Cur /\ r.m.live = live

C14_Witness ==
    /\ last.op = "insert"
    /\ last.ret = 0
    /\ last.alloc = "move"
    /\ Pre.len = 1
    /\ last.arg = 0
    /\ Elem(Pre, 0) # last.item

\* insertion in the middle, the vector having room
InsertInMiddleWitness ==
    /\ last.op = "insert"
    /\ last.ret = 0
    /\ Pre.len = 3
    /\ last.arg = 1
    /\ Elems(Pre) = <<1, 1, 2>>
    /\ Elems(Cur) = <<1, 2, 1, 2>>

\* insertion at the end, with growth
InsertAtEndWitness ==
    /\ last.op = "insert"
    /\ last.ret = 0
    /\ last.alloc = "inplace"
    /\ Pre.len = 1
    /\ last.arg = 1

\* C15: vector_insert with index > length, or on a full vector whose
\* reallocation fails, reports failure and leaves the pointer, the length, the
\* capacity and all elements as they were.
C15_FailedInsertLeavesVector ==
    (last.op = "insert" /\ (last.arg > Pre.len \/ last.alloc = "fail")) =>
        /\ last.ret # 0
        /\ v = last.pv
        /\ Cur = Pre
        /\ live = {v}

C15_Witness ==
    /\ last.op = "insert"
    /\ last.alloc = "fail"
    /\ last.arg = 0
    /\ Pre.len = 1
    /\ Pre.cap = 1

\* rejection of an index beyond the length
InsertBeyondLenWitness ==
    /\ last.op = "insert"
    /\ last.arg = Pre.len + 1
    /\ Pre.len >= 1
    /\ last.ret # 0
\* C16: a successful vector_push_all of `count` source elements leaves the
\* vector the caller holds as count successive push_backs would: length
\* n + count, elements [0, n) unchanged, elements [n, n + count) equal to the
\* source, length <= capacity; with or without growth and relocation.
C16_PushAllAppends ==
    (last.op = "push_all" /\ last.ret = 0) =>
        /\ ~last.ub
        /\ v \in live
        /\ Cur.len = Pre.len + Len(last.item)
        /\ Elems(Cur) = Elems(Pre) \o last.item
        /\ Cur.len <= Cur.cap

\* C16 for a block that stays where it is and holds all its elements
PushAllInPlaceWithinStorage ==
    (last.op = "push_all" /\ last.alloc # "move" /\ ~Overhangs(Pre)) =>
        C16_PushAllAppends

\* vector_push_all growing the block in place
PushAllInPlaceWitness ==
    /\ last.op = "push_all"
    /\ last.ret = 0
    /\ last.alloc = "inplace"
    /\ Pre.len = 1
    /\ Len(last.item) = 2
\* the allocator handed to the last vector_init: malloc is reached only
\* with a non-null allocator
SuppliedAllocator == IF last.alloc = "none" THEN A_NULL ELSE A_STD

\* C17: a successful vector_init(tsize, cap, a) returns a vector of capacity
\* cap, length 0, element size tsize and allocator a; vector_init returns NULL,
\* with no block left allocated, when the allocator is null or malloc fails.
C17_InitWritesHeader ==
    last.op = "init" =>
        /\ (last.ret = NULL) <=> (SuppliedAllocator = A_NULL \/ last.alloc = "fail")
        /\ v = last.ret
        /\ IF last.ret = NULL
           THEN live = {}
           ELSE /\ live = {v}
                /\ Cur.cap = last.arg
                /\ Cur.len = 0
                /\ Cur.tsize = last.item
                /\ Cur.a = SuppliedAllocator
                /\ NumSlots(Cur) = last.arg

C17_Witness ==
    /\ last.op = "init"
    /\ last.ret # NULL
    /\ last.arg = 3
    /\ Cur.cap = 3

\* vector_init failing in malloc, and refusing a null allocator
InitFailsWitness ==
    /\ last.op = "init"
    /\ last.ret = NULL
    /\ last.alloc = "fail"

InitNullAllocatorWitness ==
    /\ last.op = "init"
    /\ last.ret = NULL
    /\ last.alloc = "none"
\* C18: counting the blocks the allocator has handed out and not taken back,
\* a vector owns exactly one block from init to free, whatever growth or
\* resize operations succeed or fail in between; after vector_free on the
\* caller's handle none is left, and no block is released twice.
C18_OneBlockPerVector ==
    /\ v # NULL => Cardinality(live) = 1
    /\ v = NULL => live = {}
    /\ last.op = "free" => ~last.ub

\* C18 as long as the caller's pointer is the block the vector lives in
OneBlockWhileHandleIsCurrent ==
    status = "running" =>
        /\ v # NULL => live = {v}
        /\ v = NULL => live = {}
        /\ last.op = "free" => ~last.ub

\* a vector released after its block has moved in a push or a resize
FreeAfterMoveWitness ==
    /\ last.op = "free"
    /\ last.ret = 0
    /\ status = "running"
    /\ last.pv = 2
    /\ last.pb.len > 0
    /\ live = {}
\* the pointers vec holds, in order
KeptHandles == [i \in 1..Len(nest.kept) |-> nest.kept[i].h]

\* C19: whatever is done to the outer vector (push_back, growth, relocation),
\* every inner vector it holds keeps its length, capacity and elements; and
\* freeing each inner vector once and then the outer vector releases every
\* one of their blocks exactly once.
C19_NestedVectorsIndependent ==
    /\ nest.pc \in {"build", "teardown"} =>
          /\ Elems(Cur) = KeptHandles
          /\ \A i \in 1..Len(nest.kept) :
                i > nest.next =>
                    /\ nest.kept[i].h \in live
                    /\ heap[nest.kept[i].h] = nest.kept[i].b
                    /\ \A j \in 1..Len(nest.kept) :
                          nest.kept[j].h = nest.kept[i].h => j = i
    /\ ~nest.twice
    /\ nest.pc = "done" => live = nest.lost

C19_Witness ==
    /\ nest.pc = "done"
    /\ Len(nest.kept) = 2
    /\ nest.kept[1].b.len = 1
    /\ nest.kept[2].b.len = 1
    /\ nest.next = 2
    /\ live = {}

\* the outer vector moving while it holds an inner vector
OuterMovesWitness ==
    /\ nest.pc = "build"
    /\ last.op = "push_back"
    /\ last.alloc = "move"
    /\ Len(nest.kept) = 2
    /\ nest.kept[1].b.len = 1
\* what vector_pop_back returns for a null vector
NullPopOutcome == vector_pop_back(Mem, NULL).ret

\* C20: vector_pop_back on a vector of length 0 signals an outcome that
\* differs from the outcome for a null vector, and leaves the length at 0
\* and the capacity and storage unchanged.
C20_EmptyPopDistinctFromNull ==
    (last.op = "pop_back" /\ last.pv # NULL /\ Pre.len = 0) =>
        /\ last.ret # NullPopOutcome
        /\ v = last.pv
        /\ Cur = Pre

\* the part of C20 that vector.c keeps: an empty pop changes nothing
EmptyPopLeavesVector ==
    (last.op = "pop_back" /\ last.pv # NULL /\ Pre.len = 0) =>
        /\ last.ret = 0 - 1
        /\ v = last.pv
        /\ Cur = Pre
        /\ Cur.len = 0

\* a pop through a null pointer
NullPopWitness ==
    /\ last.op = "pop_back_null"
    /\ last.ret = NullPopOutcome
    /\ v # NULL

\* C20 in the status-code variant: VEC_EMPTY for an empty vector, VEC_ERR
\* for a null vector, and the empty vector is left as it was
EmptyPopDistinctInStatusVariant ==
    last.op = "pop_back_out" =>
        /\ last.pv = NULL => last.ret = "VEC_ERR"
        /\ (last.pv # NULL /\ Pre.len = 0 /\ last.ret # "VEC_ERR") =>
               /\ last.ret = "VEC_EMPTY"
               /\ Cur = Pre

EmptyPopStatusWitness ==
    /\ last.op = "pop_back_out"
    /\ last.ret = "VEC_EMPTY"
    /\ Pre.cap > 0
\* C21: for a non-null vector and any n, also n above the capacity,
\* vector_set_len(v, n) returns success and vector_get_len then reports n;
\* capacity, element size, allocator and the stored elements are unchanged.
C21_SetLenSetsLength ==
    last.op = "set_len" =>
        /\ last.ret = 0
        /\ v = last.pv
        /\ vector_get_len(Mem, v) = last.arg
        /\ Cur = [Pre EXCEPT !.len = last.arg]
        /\ live = {v}

C21_Witness ==
    /\ last.op = "set_len"
    /\ last.arg > Pre.cap
    /\ Pre.len = 1
    /\ Pre.cap = 2
\* C22: vector_normal_copy on a vector of length n > 0, with an allocation
\* function that succeeds, returns a new buffer whose n elements are elements
\* [0, n) of the vector; it returns null when n = 0 or the allocation fails;
\* in every case the vector (length, capacity, elements) is unchanged.
C22_NormalCopyCopies ==
    last.op = "normal_copy" =>
        /\ ~last.ub
        /\ status = "running"
        /\ v = last.pv
        /\ Cur = Pre
        /\ live = {v}
        /\ IF Pre.len > 0 /\ last.alloc = "ok"
           THEN /\ last.ret # NULL
                /\ last.ret \notin live
                /\ last.item = Elems(Pre)
           ELSE last.ret = NULL

\* where the vector's elements all lie in its block, vector_normal_copy
\* does what C22 says
NormalCopyWithinStorage ==
    (last.op = "normal_copy" /\ Pre.len <= NumSlots(Pre)) =>
        /\ ~last.ub
        /\ status = "running"
        /\ v = last.pv
        /\ Cur = Pre
        /\ live = {v}
        /\ IF Pre.len > 0 /\ last.alloc = "ok"
           THEN /\ last.ret # NULL
                /\ last.ret \notin live
                /\ last.item = Elems(Pre)
                /\ Len(last.item) = Pre.len
           ELSE last.ret = NULL

NormalCopyWitness ==
    /\ last.op = "normal_copy"
    /\ last.ret # NULL
    /\ last.item = <<1, 2>>
    /\ Pre.cap = 3

NormalCopyOfEmptyWitness ==
    /\ last.op = "normal_copy"
    /\ last.alloc = "ok"
    /\ Pre.len = 0
    /\ last.ret = NULL
\* the queries vector_get_len, vector_get_cap and vector_can_append
Queries == {"get_len", "get_cap", "can_append"}

\* what the query named op answers in the current state
Answer(op) ==
    IF op = "get_len" THEN vector_get_len(Mem, v)
    ELSE IF op = "get_cap" THEN vector_get_cap(Mem, v)
    ELSE IF vector_can_append(Mem, v) THEN 1 ELSE 0

\* C23: vector_get_len, vector_get_cap and vector_can_append change nothing
\* in the vector (length, capacity, element size, allocator, elements, owning
\* block), so the same query asked again right after gives the same answer.
C23_QueriesChangeNothing ==
    last.op \in Queries =>
        /\ v = last.pv
        /\ Cur = Pre
        /\ live = {v}
        /\ status = "running"
        /\ Answer(last.op) = last.ret

C23_Witness ==
    /\ last.op = "get_len"
    /\ last.ret = 3
    /\ Cur.cap = 2

GetCapWitness ==
    /\ last.op = "get_cap"
    /\ last.ret = 3
    /\ Cur.len = 1
\* the operations that change a vector after vector_init
MutatingOps ==
    {"push_back", "pop_back", "insert", "remove", "remove_ordered", "resize",
     "shrink_to_fit", "set_len"}

\* C24: the element size and the allocator reference written into the
\* header by vector_init are changed by no later operation (push_back,
\* pop_back, insert, remove, remove_ordered, resize, shrink_to_fit, set_len),
\* also when the operation moves the block.
C24_ElementSizeAndAllocatorKept ==
    (last.op \in MutatingOps /\ last.pv # NULL /\ v # NULL) =>
        /\ Cur.tsize = Pre.tsize
        /\ Cur.a = Pre.a
        /\ Cur.tsize \in ElemSizes
        /\ Cur.a = A_STD

C24_Witness ==
    /\ last.op = "resize"
    /\ last.alloc = "move"
    /\ v # last.pv
    /\ v # NULL
    /\ Pre.len = 2

PushBackMovesWitness ==
    /\ last.op = "push_back"
    /\ last.alloc = "move"
    /\ v # last.pv
    /\ v # NULL

InsertMovesWitness ==
    /\ last.op = "insert"
    /\ last.alloc = "move"
    /\ v # last.pv
    /\ v # NULL
\* the operations that can reallocate the block
ReallocatingOps == {"push_back", "insert", "push_all", "shrink_to_fit", "resize"}

\* an operation has just moved a vector whose elements lay inside its block
Relocated(ops) ==
    /\ last.op \in ops
    /\ last.alloc = "move"
    /\ Pre.len <= NumSlots(Pre)

\* every access went to the block the vector now occupies, and that block
\* is what the caller holds
ThroughNewBlock ==
    /\ ~last.ub
    /\ status = "running"
    /\ v # last.pv
    /\ v \in live
    /\ last.pv \notin live
    /\ heap[last.pv] = EmptyBlock

\* C25: in an operation that reallocates (push_back, insert, push_all,
\* shrink_to_fit, resize), once the reallocation has moved the block every
\* later header or element access of the operation goes to the new block,
\* none to the released one, and the caller ends up holding the live block.
C25_NoAccessToReleasedBlock ==
    Relocated(ReallocatingOps) => ThroughNewBlock

\* all reallocating operations but vector_push_all do what C25 says
OthersUseNewBlock ==
    Relocated(ReallocatingOps \ {"push_all"}) => ThroughNewBlock

\* vector_push_all has moved the block, written the length into the released
\* header and left the caller with the released block
PushAllStaleWitness ==
    /\ last.op = "push_all"
    /\ last.alloc = "move"
    /\ Pre.len <= NumSlots(Pre)
    /\ last.ub
    /\ status = "dangling"
    /\ v \notin live
\* the operations that read or write element slots
SlotOps == {"push_back", "pop_back", "remove", "remove_ordered"}

\* C26: after any sequence of public operations, vector_resize below the
\* length and vector_set_len included, every element slot the library reads
\* or writes lies inside the block: push_back writes at an index < capacity,
\* pop_back yields a slot at an index < capacity, and the shifts of remove
\* and remove_ordered touch only indices < capacity.
C26_AccessesWithinStorage ==
    (last.op \in SlotOps /\ last.pv # NULL) =>
        /\ ~last.ub
        /\ (last.op = "pop_back" /\ last.ret # -1) =>
               (last.ret < Pre.cap /\ InBlock(Pre, last.ret))

\* where the length is within the capacity the slot operations stay inside
\* the block
AccessesWithinStorageWhileLenWithinCap ==
    (last.op \in SlotOps /\ last.pv # NULL /\ Pre.len <= Pre.cap) =>
        /\ ~last.ub
        /\ (last.op = "pop_back" /\ last.ret # -1) =>
               (last.ret < Pre.cap /\ InBlock(Pre, last.ret))

\* vector_push_back has written beyond the block after vector_resize cut
\* the capacity below the length
PushBackOutsideWitness ==
    /\ last.op = "push_back"
    /\ last.ub
    /\ Pre.len > Pre.cap

\* vector_pop_back has handed out a slot beyond the block
PopBackOutsideWitness ==
    /\ last.op = "pop_back"
    /\ last.ret >= Pre.cap
    /\ ~InBlock(Pre, last.ret)

\* vector_remove has shifted elements from beyond the block
RemoveOutsideWitness ==
    /\ last.op = "remove"
    /\ last.ub
\* C27: vector_remove shifts the whole tail: for a vector of length n and
\* an index i < n, remove(v, i) leaves the original element sequence with
\* position i deleted, the survivors in their original order.
C27_RemoveShiftsTail ==
    (last.op = "remove" /\ last.arg < Pre.len) =>
        /\ status = "running"
        /\ last.ret = 0
        /\ Elems(Cur) = DeleteAt(Elems(Pre), last.arg + 1)
        /\ \A i \in 1..Cur.len : Elems(Cur)[i] \in Items

\* C27 for vectors whose elements all lie inside the block
RemoveShiftsTailWithinStorage ==
    (last.op = "remove" /\ last.arg < Pre.len /\ ~Overhangs(Pre)) =>
        /\ status = "running"
        /\ last.ret = 0
        /\ ~last.ub
        /\ Elems(Cur) = DeleteAt(Elems(Pre), last.arg + 1)
        /\ \A i \in 1..Cur.len : Elems(Cur)[i] \in Items

\* removing the first of three elements moves both survivors down in order
RemoveFirstOfThreeWitness ==
    /\ last.op = "remove"
    /\ last.arg = 0
    /\ ~Overhangs(Pre)
    /\ Elems(Pre) = <<1, 2, 1>>
    /\ Elems(Cur) = <<2, 1>>

\* vector_remove on a vector whose tail lies beyond the block
RemoveBeyondStorageWitness ==
    /\ last.op = "remove"
    /\ last.arg < Pre.len
    /\ Overhangs(Pre)
    /\ Elems(Cur) # DeleteAt(Elems(Pre), last.arg + 1)
\* the block holds the header and cap elements of tsize bytes
HoldsCapacity(b) == b.size >= HeaderSize + b.cap * b.tsize

\* C28: with size_t of Width bits, the byte count header_size + capacity *
\* element_size passed to the allocator by init and resize and the growth
\* capacity (capacity + 1) * 2 never wrap around: when init or resize
\* succeeds the block has at least header_size + capacity * element_size
\* bytes for the capacity in the header, and a growth records a capacity
\* greater than the old one.
C28_NoWrapAround ==
    /\ (last.op \in {"init", "resize"} /\ last.ret # NULL) =>
           (~last.ub /\ HoldsCapacity(Cur))
    /\ (last.op = "push_back" /\ last.alloc \in {"inplace", "move"}
          /\ status = "running") =>
           Cur.cap > Pre.cap

\* where the exact byte count and growth capacity fit in size_t, init,
\* resize and growth do what C28 says
NoWrapWhereResultFits ==
    /\ (last.op \in {"init", "resize"} /\ last.ret # NULL
          /\ HeaderSize + last.arg * Cur.tsize <= SizeMax
          /\ ~last.ub) =>
           HoldsCapacity(Cur)
    /\ (last.op = "push_back" /\ last.alloc \in {"inplace", "move"}
          /\ status = "running" /\ (Pre.cap + 1) * 2 <= SizeMax) =>
           Cur.cap > Pre.cap

\* vector_init has succeeded with a block smaller than its capacity needs
WrappedInitWitness ==
    /\ last.op = "init"
    /\ last.ret # NULL
    /\ ~last.ub
    /\ Cur.cap = SizeMax \div 4 + 1
    /\ Cur.size = HeaderSize

\* vector_resize has succeeded with a block smaller than its capacity needs
WrappedResizeWitness ==
    /\ last.op = "resize"
    /\ last.ret # NULL
    /\ HoldsCapacity(Pre)
    /\ ~HoldsCapacity(Cur)

\* a growth from a block that held its capacity has recorded a smaller one
WrappedGrowthWitness ==
    /\ last.op = "push_back"
    /\ last.alloc = "move"
    /\ HoldsCapacity(Pre)
    /\ Pre.cap = SizeMax \div 2
    /\ Cur.cap = 0
====
